---- MODULE Spec2Model ----
(***************************************************************************)
(* Model of trader.py: a command-line client that places a limit order on  *)
(* an exchange, immediately or deferred to a wall-clock time through an    *)
(* APScheduler BackgroundScheduler, while the foreground thread shows a    *)
(* countdown.                                                              *)
(*                                                                         *)
(* Time is counted in whole seconds of the Asia/Shanghai wall clock since  *)
(* 00:00:00 of day 0.  Text is a sequence of one-character strings.        *)
(*                                                                         *)
(* Three kinds of thread act: the foreground thread (pc), the scheduler's  *)
(* daemon thread, which dispatches due jobs, and the pool threads that run *)
(* job().  The interpreter joins the pool threads when it shuts down and   *)
(* abandons the daemon thread.                                             *)
(***************************************************************************)
EXTENDS Integers, Sequences, FiniteSets, TLC

VARIABLES
    args,         \* argparse namespace (trader.py:259-270)
    time_input,   \* the line last read at the time prompt
    account_req,  \* the request get_account_info has built, while it runs
    use_schedule, \* the answer to the schedule prompt, upper-cased
    confirm,      \* the answer to the confirmation prompt, upper-cased
    remaining,    \* the countdown's last sample of scheduled_time - now
    display,      \* the remaining time the countdown printed last
    secret_key,   \* BinanceTrader.secret_key, None when the variable is unset
    pc,           \* position of the foreground (main) thread
    clock,        \* the wall clock, seconds
    uncaught,     \* exception that left the foreground thread, "none" if none
    account,      \* value returned by get_account_info
    order,        \* symbol, side, quantity, price the foreground works with
    target_time,  \* the resolved instant
    wake,         \* instant at which time.sleep(1) may return
    jobstore,     \* the scheduler's jobs, in the order they were added
    fg,           \* the foreground's place_limit_order call
    posts,        \* every request POSTed to /api/v3/order, in order
    calls,        \* number of place_limit_order calls begun
    reported,     \* the notices and failure lines printed so far
    interruptedAt,\* clock at the user's interrupt, -1 before it
    alive         \* FALSE once the interpreter has shut down

vars == <<use_schedule, confirm, remaining, display,
          args, time_input, account_req, secret_key, pc, clock, uncaught, account,
          order, target_time,
          wake, jobstore, fg, posts, calls, reported, interruptedAt, alive>>

None == "None"

----------------------------------------------------------------------------
(* Bounds of the model *)

MaxClock == 62      \* the clock stops advancing here
MaxDay == 1         \* days on which the resolver is exercised: 0..MaxDay

----------------------------------------------------------------------------
(* Text *)

Digit == {"0", "1", "2", "3", "4", "5", "6", "7", "8", "9"}

DigitVal(c) ==
    CASE c = "0" -> 0 [] c = "1" -> 1 [] c = "2" -> 2 [] c = "3" -> 3
      [] c = "4" -> 4 [] c = "5" -> 5 [] c = "6" -> 6 [] c = "7" -> 7
      [] c = "8" -> 8 [] c = "9" -> 9

DigitChar(n) ==
    CASE n = 0 -> "0" [] n = 1 -> "1" [] n = 2 -> "2" [] n = 3 -> "3"
      [] n = 4 -> "4" [] n = 5 -> "5" [] n = 6 -> "6" [] n = 7 -> "7"
      [] n = 8 -> "8" [] n = 9 -> "9"

\* str.split(':'): the fields between the separators, empty fields kept
RECURSIVE SplitFrom(_, _, _)
SplitFrom(s, sep, cur) ==
    IF s = <<>> THEN <<cur>>
    ELSE IF Head(s) = sep THEN <<cur>> \o SplitFrom(Tail(s), sep, <<>>)
    ELSE SplitFrom(Tail(s), sep, Append(cur, Head(s)))

split(s, sep) == SplitFrom(s, sep, <<>>)

\* str.strip() as int() applies it: blanks off both ends
RECURSIVE LStrip(_)
LStrip(s) == IF s # <<>> /\ Head(s) = " " THEN LStrip(Tail(s)) ELSE s

RECURSIVE RStrip(_)
RStrip(s) ==
    IF s # <<>> /\ s[Len(s)] = " " THEN RStrip(SubSeq(s, 1, Len(s) - 1)) ELSE s

strip(s) == RStrip(LStrip(s))

\* the largest value a C int holds; datetime() takes its fields as C ints
CIntMax == 2147483647

\* The digits of an int literal: digits, single underscores between digits.
\* acc is the value so far, kept exact up to CIntMax; big records that the
\* value went past it.
RECURSIVE DigitsFrom(_, _, _, _)
DigitsFrom(s, acc, big, prevDigit) ==
    IF s = <<>> THEN
        IF prevDigit THEN [err |-> "none", val |-> acc, big |-> big]
        ELSE [err |-> "ValueError", val |-> 0, big |-> FALSE]
    ELSE IF Head(s) \in Digit THEN
        LET d == DigitVal(Head(s))
            over == big \/ acc > CIntMax \div 10
                        \/ (acc = CIntMax \div 10 /\ d > CIntMax % 10)
        IN DigitsFrom(Tail(s), IF over THEN CIntMax ELSE acc * 10 + d, over, TRUE)
    ELSE IF Head(s) = "_" /\ prevDigit /\ Tail(s) # <<>> /\ Head(Tail(s)) \in Digit
        THEN DigitsFrom(Tail(s), acc, big, FALSE)
    ELSE [err |-> "ValueError", val |-> 0, big |-> FALSE]

\* int(text): blanks stripped, an optional sign, then the digits
int(text) ==
    LET s == strip(text)
        signed == s # <<>> /\ Head(s) \in {"+", "-"}
        body == IF signed THEN Tail(s) ELSE s
        r == DigitsFrom(body, 0, FALSE, FALSE)
    IN IF r.err # "none" THEN r
       ELSE IF signed /\ Head(s) = "-" THEN [r EXCEPT !.val = 0 - r.val]
       ELSE r

----------------------------------------------------------------------------
(* Calendar *)

SecondsPerDay == 86400
SecondsPerHour == 3600
SecondsPerMinute == 60

DayOf(t) == t \div SecondsPerDay

\* datetime(year, month, day, hour, minute) for fields that int() produced:
\* a field that does not fit a C int is an OverflowError, a field out of
\* range a ValueError
datetime(day, hour, minute) ==
    IF hour.big \/ minute.big THEN [kind |-> "OverflowError", t |-> 0]
    ELSE IF hour.val \notin 0..23 \/ minute.val \notin 0..59
        THEN [kind |-> "ValueError", t |-> 0]
    ELSE [kind |-> "ok",
          t |-> day * SecondsPerDay + hour.val * SecondsPerHour
                + minute.val * SecondsPerMinute]

\* ResolveBody rolling over also when the instant equals now
ResolveBodyRollsOnEqual(time_str, now) ==
    LET fields == split(time_str, ":")
        f1 == int(fields[1])
        f2 == int(fields[2])
    IN IF f1.err # "none" THEN [kind |-> "ValueError", t |-> 0]
       ELSE IF Len(fields) < 2 THEN [kind |-> "ValueError", t |-> 0]
       ELSE IF f2.err # "none" THEN [kind |-> "ValueError", t |-> 0]
       ELSE IF Len(fields) > 2 THEN [kind |-> "ValueError", t |-> 0]
       ELSE LET target == datetime(DayOf(now), f1, f2)
            IN IF target.kind # "ok" THEN target
               ELSE IF target.t <= now
                   THEN [target EXCEPT !.t = target.t + SecondsPerDay]
               ELSE target

\* hour, minute = map(int, time_str.split(':')) and what follows it inside
\* the try: the instant, or the exception that leaves the try body
ResolveBody(time_str, now) ==
    LET fields == split(time_str, ":")
        f1 == int(fields[1])
        f2 == int(fields[2])
    IN IF f1.err # "none" THEN [kind |-> "ValueError", t |-> 0]
       ELSE IF Len(fields) < 2 THEN [kind |-> "ValueError", t |-> 0]
       ELSE IF f2.err # "none" THEN [kind |-> "ValueError", t |-> 0]
       ELSE IF Len(fields) > 2 THEN [kind |-> "ValueError", t |-> 0]
       ELSE LET target == datetime(DayOf(now), f1, f2)
            IN IF target.kind # "ok" THEN target
               ELSE IF target.t < now
                   THEN [target EXCEPT !.t = target.t + SecondsPerDay]
               ELSE target

\* parse_time_input: a ValueError becomes an ArgumentTypeError
parse_time_input(time_str, now) ==
    LET r == ResolveBody(time_str, now)
    IN IF r.kind = "ValueError" THEN [kind |-> "ArgumentTypeError", t |-> 0]
       ELSE r

\* One pass of the loop of get_valid_time_input: a ValueError is printed and
\* the prompt repeats ("retry"), anything else leaves the function
get_valid_time_input(text, now) ==
    LET fields == split(strip(text), ":")
        f1 == int(fields[1])
        f2 == int(fields[2])
        bad == [kind |-> "retry", t |-> 0]
    IN IF f1.err # "none" THEN bad
       ELSE IF Len(fields) < 2 THEN bad
       ELSE IF f2.err # "none" THEN bad
       ELSE IF Len(fields) > 2 THEN bad
       ELSE LET target == datetime(DayOf(now), f1, f2)
            IN IF target.kind = "ValueError" THEN bad
               ELSE IF target.kind # "ok" THEN target
               ELSE IF target.t < now
                   THEN [target EXCEPT !.t = target.t + SecondsPerDay]
               ELSE target

----------------------------------------------------------------------------
(* Values the user can supply *)

\* --schedule_time values tried in flag mode: 00:01, and two that do not parse
FlagTimes == { <<"0", "0", ":", "0", "1">>,
               <<"a", "b", "c">>,
               <<"2", "1", "4", "7", "4", "8", "3", "6", "4", "8", ":", "0", "0">> }

\* texts typed at the time prompt of interactive mode
TypedTimes == FlagTimes \cup { <<"1", "8">>, <<"2", "5", ":", "6", "1">> }

\* amounts given as --quantity and --price, and typed at the two prompts
Quantities == {0 - 1, 0, 1}
Prices == {0, 1}
QuantityTexts == { <<"1">>, <<"0">>, <<"-", "1">>, <<"a", "b", "c">> }
PriceTexts == { <<"1">>, <<"0">>, <<"x">> }

Symbols == {"btcusdt", "BTCUSDT"}
Sides == {"buy", "BUY"}

\* str.upper() on the texts above
upper(s) ==
    CASE s = "btcusdt" -> "BTCUSDT"
      [] s = "btc/usdt" -> "BTC/USDT"
      [] s = "buy" -> "BUY"
      [] s = "y" -> "Y"
      [] s = "n" -> "N"
      [] OTHER -> s

\* float(text) for texts that are integer literals; anything else raises
float(text) == int(text)

\* an optional argparse value: <<>> when the flag is absent, <<v>> otherwise
Absent == <<>>
Given(v) == <<v>>

\* Python truth of the argparse values
TruthyText(s) == s # None /\ s # ""
TruthyNumber(o) == o # Absent /\ o[1] # 0
TruthySeq(s) == s # <<>>

\* any(vars(args).values()); --testnet only selects the host and the key
\* pair, and the namespace below is kept without it
AnyArg(a) ==
    \/ TruthyText(a.symbol)
    \/ TruthyText(a.side)
    \/ TruthyNumber(a.quantity)
    \/ TruthyNumber(a.price)
    \/ TruthySeq(a.schedule_time)
    \/ a.show_balance

ArgSpace ==
    [symbol : {None, "BTCUSDT"},
     side : {None, "BUY"},
     quantity : {Absent} \cup {Given(q) : q \in Quantities},
     price : {Absent} \cup {Given(p) : p \in Prices},
     schedule_time : {<<>>} \cup FlagTimes,
     show_balance : BOOLEAN]

----------------------------------------------------------------------------
(* The exchange *)

\* Response bodies: account JSON, order JSON, the exchange's error JSON
\* {"code": ..., "msg": ...}, and a body that is not JSON
Bodies == {"account", "order", "error", "text"}
IsJSON(body) == body # "text"
HasKey(body, k) ==
    \/ body = "account" /\ k = "balances"
    \/ body = "order" /\ k = "orderId"
    \/ body = "error" /\ k \in {"code", "msg"}
MsgOf(body) == "Insufficient balance"

\* the statuses the exchange answers with: success and rejection
Statuses == {200, 400}

\* what requests.get / requests.post can come back with: a response, or a
\* RequestException raised by the transport (no response attached)
Responses ==
    {[net |-> "ok", status |-> s, body |-> b] : s \in Statuses, b \in Bodies}
    \cup {[net |-> "fail", status |-> 0, body |-> "text"]}

NoValue == [kind |-> "None", body |-> "text"]
Dict(body) == [kind |-> "dict", body |-> body]

\* Response.__bool__ is Response.ok: no 4xx or 5xx status
ResponseBool(resp) == resp.status < 400

\* str(e) of the exception raised
StrE(resp) ==
    IF resp.net = "fail" THEN "ConnectionError"
    ELSE IF resp.status >= 400 THEN "HTTPError"
    ELSE "JSONDecodeError"

----------------------------------------------------------------------------
(* BinanceTrader *)

\* the order of the keys of params in place_limit_order
ParamOrder ==
    <<"symbol", "side", "type", "timeInForce", "quantity", "price", "timestamp">>

\* params of place_limit_order, time.time() being now
OrderParams(symbol, side, quantity, price, now) ==
    [symbol |-> upper(symbol), side |-> upper(side), type |-> "LIMIT",
     timeInForce |-> "GTC", quantity |-> quantity, price |-> price,
     timestamp |-> now * 1000]

\* the characters of the texts that occur as parameter values
Chars(s) ==
    CASE s = "BTCUSDT" -> <<"B", "T", "C", "U", "S", "D", "T">>
      [] s = "BTC/USDT" -> <<"B", "T", "C", "/", "U", "S", "D", "T">>
      [] s = "BUY" -> <<"B", "U", "Y">>
      [] s = "LIMIT" -> <<"L", "I", "M", "I", "T">>
      [] s = "GTC" -> <<"G", "T", "C">>

\* str(n) of an int
RECURSIVE NatText(_)
NatText(n) ==
    IF n < 10 THEN <<DigitChar(n)>>
    ELSE Append(NatText(n \div 10), DigitChar(n % 10))

IntText(n) == IF n < 0 THEN <<"-">> \o NatText(0 - n) ELSE NatText(n)

\* str(x) of a float that is a whole number
FloatText(n) == IntText(n) \o <<".", "0">>

\* str(v) of the value params holds under key k
ValueText(k, v) ==
    IF k \in {"quantity", "price"} THEN FloatText(v)
    ELSE IF k = "timestamp" THEN IntText(v)
    ELSE Chars(v)

\* the characters urllib's quote_plus leaves as they are
Unreserved ==
    Digit \cup {"_", ".", "-", "~"}
    \cup {"A", "B", "C", "D", "E", "F", "G", "H", "I", "J", "K", "L", "M",
           "N", "O", "P", "Q", "R", "S", "T", "U", "V", "W", "X", "Y", "Z"}

\* quote_plus, which requests applies to every value of params=
RECURSIVE quote_plus(_)
quote_plus(text) ==
    IF text = <<>> THEN <<>>
    ELSE (IF Head(text) \in Unreserved THEN <<Head(text)>>
          ELSE IF Head(text) = " " THEN <<"+">>
          ELSE IF Head(text) = "/" THEN <<"%", "2", "F">>
          ELSE <<"%", "X", "X">>)
         \o quote_plus(Tail(text))

\* "&".join([f"{k}={v}" ...]): the key=value items in the order of the keys
QueryString(keys, params) ==
    [i \in 1..Len(keys) |->
        [k |-> keys[i], v |-> ValueText(keys[i], params[keys[i]])]]

\* the query requests builds from params=: every value quoted
urlencode(keys, params) ==
    [i \in 1..Len(keys) |->
        [k |-> keys[i], v |-> quote_plus(ValueText(keys[i], params[keys[i]]))]]

\* _generate_signature: the HMAC of the query string under the secret, kept
\* as the pair it is computed from
_generate_signature(keys, params, secret) ==
    [secret |-> secret, keys |-> keys, params |-> params,
     msg |-> QueryString(keys, params)]

\* params with params["signature"] added, as requests sends it: the keys in
\* insertion order, the encoded items, the signature
Signed(keys, params, secret) ==
    [keys |-> Append(keys, "signature"),
     params |-> params,
     query |-> urlencode(keys, params),
     signature |-> _generate_signature(keys, params, secret)]

\* the request place_limit_order hands to requests.post
SignedRequest(symbol, side, quantity, price, now, secret) ==
    Signed(ParamOrder, OrderParams(symbol, side, quantity, price, now), secret)

\* the request get_account_info hands to requests.get
AccountRequest(now, secret) ==
    Signed(<<"timestamp">>, [timestamp |-> now * 1000], secret)

NoRequest == [keys |-> <<>>]

\* get_account_info once the request is signed: response.json() whatever the
\* status, None when the transport or the decoding raises
get_account_info(resp) ==
    IF resp.net = "fail" THEN NoValue
    ELSE IF IsJSON(resp.body) THEN Dict(resp.body)
    ELSE NoValue

\* the message the except clause of place_limit_order computes:
\* json.loads(e.response.text)['msg'] if e.response else str(e)
ErrorMsg(resp, e_response) ==
    IF e_response /\ ResponseBool(resp) THEN
        IF ~IsJSON(resp.body) THEN [raised |-> "JSONDecodeError", msg |-> ""]
        ELSE IF ~HasKey(resp.body, "msg") THEN [raised |-> "KeyError", msg |-> ""]
        ELSE [raised |-> "none", msg |-> MsgOf(resp.body)]
    ELSE [raised |-> "none", msg |-> StrE(resp)]

\* place_limit_order from the answer of requests.post on: the value returned,
\* the message printed, the exception that leaves the method
place_limit_order(resp) ==
    IF resp.net = "fail" THEN
        LET m == ErrorMsg(resp, FALSE)
        IN [result |-> NoValue, error_msg |-> m.msg, raised |-> m.raised]
    ELSE IF resp.status >= 400 THEN
        LET m == ErrorMsg(resp, TRUE)
        IN [result |-> NoValue, error_msg |-> m.msg, raised |-> m.raised]
    ELSE IF IsJSON(resp.body) THEN
        [result |-> Dict(resp.body), error_msg |-> "", raised |-> "none"]
    ELSE
        LET m == ErrorMsg(resp, FALSE)
        IN [result |-> NoValue, error_msg |-> m.msg, raised |-> m.raised]

NoOutcome == [result |-> NoValue, error_msg |-> "", raised |-> "none"]
NoResponse == [net |-> "none", status |-> 0, body |-> "text"]

\* a value is true in Python: not None (the JSON objects here are not empty)
Truthy(v) == v.kind # "None"

NoOrder == [symbol |-> "", side |-> "", quantity |-> 0, price |-> 0]

\* a job as schedule_order adds it: the closure's arguments and the run date
NewJob(o, run_date, now) ==
    [symbol |-> o.symbol, side |-> o.side, quantity |-> o.quantity,
     price |-> o.price, run_date |-> run_date, addedAt |-> now,
     state |-> "Pending", stage |-> "none", runs |-> 0, firedAt |-> 0 - 1,
     req |-> NoRequest, resp |-> NoResponse, outcome |-> NoOutcome,
     exc |-> "none"]

\* misfire_grace_time of a job added without one (APScheduler's default)
misfire_grace_time == 1

\* a worker thread of the scheduler's pool still has work for job j
InFlight(j) ==
    \/ jobstore[j].state = "Submitted"
    \/ jobstore[j].state = "Fired" /\ jobstore[j].stage \notin {"done", "raised"}

----------------------------------------------------------------------------
(* The foreground thread *)

NoFg == [req |-> NoRequest, resp |-> NoResponse, outcome |-> NoOutcome]

\* time_input before anything was read at the time prompt
Unread == <<"unread">>

\* the instants at which the process may be started
ClockStarts == {58}

\* the process at position p of the foreground thread, nothing scheduled or
\* sent yet
Boot(a, sk, now, p) ==
    /\ args = a
    /\ time_input = Unread
    /\ account_req = NoRequest
    /\ use_schedule = None
    /\ confirm = None
    /\ remaining = <<>>
    /\ display = <<>>
    /\ secret_key = sk
    /\ clock = now
    /\ pc = p
    /\ uncaught = "none"
    /\ account = NoValue
    /\ order = NoOrder
    /\ target_time = 0
    /\ wake = 0
    /\ jobstore = <<>>
    /\ fg = NoFg
    /\ posts = <<>>
    /\ calls = 0
    /\ reported = {}
    /\ interruptedAt = 0 - 1
    /\ alive = TRUE

\* the command lines: those with a flag that counts, and the one without
\* flags (a command line whose only values are zeros is taken for the latter
\* by __main__ and runs the same interactive session)
Invocations ==
    {a \in ArgSpace : AnyArg(a) \/ (a.quantity = Absent /\ a.price = Absent)}

Init ==
    \E a \in Invocations, sk \in {"s", None}, now \in ClockStarts :
        Boot(a, sk, now, "entry")

\* an exception leaves the foreground thread: traceback, interpreter shutdown
Crash(exc) ==
    /\ pc' = "crashed"
    /\ uncaught' = exc

\* __main__: interactive_trading() when no flag was given, main(args)
\* otherwise; both construct the trader, which starts the scheduler
Entry ==
    /\ pc = "entry"
    /\ pc' = IF ~AnyArg(args) THEN "i_account"
             ELSE IF args.show_balance THEN "m_account"
             ELSE "m_order"
    /\ UNCHANGED <<use_schedule, confirm, remaining, display,
                   args, time_input, account_req, secret_key, clock, uncaught, account, order,
                   target_time, wake, jobstore, fg, posts, calls, reported,
                   interruptedAt, alive>>

\* trader.get_account_info() up to requests.get: params, and the signature,
\* which is computed before the try
SignAccountRequest ==
    /\ pc \in {"m_account", "i_account"}
    /\ IF secret_key = None
       THEN /\ Crash("AttributeError")
            /\ UNCHANGED account_req
       ELSE /\ account_req' = AccountRequest(clock, secret_key)
            /\ pc' = IF pc = "m_account" THEN "m_account_wait"
                     ELSE "i_account_wait"
            /\ UNCHANGED uncaught
    /\ UNCHANGED <<use_schedule, confirm, remaining, display,
                   args, time_input, secret_key, clock, account, order,
                   target_time, wake, jobstore, fg, posts, calls, reported,
                   interruptedAt, alive>>

\* trader.get_account_info() from the answer of requests.get on
GetAccountInfo ==
    /\ pc \in {"m_account_wait", "i_account_wait"}
    /\ \E resp \in Responses :
         /\ account' = get_account_info(resp)
         /\ reported' = IF get_account_info(resp) = NoValue
                        THEN reported \cup {"account_failed"}
                        ELSE reported
    /\ account_req' = NoRequest
    /\ pc' = IF pc = "m_account_wait" THEN "m_balance" ELSE "i_balance"
    /\ UNCHANGED <<use_schedule, confirm, remaining, display,
                   args, time_input, secret_key, clock, uncaught, order,
                   target_time, wake, jobstore, fg, posts, calls,
                   interruptedAt, alive>>

\* if account: ... account['balances'] ...
ShowBalance ==
    /\ pc \in {"m_balance", "i_balance"}
    /\ IF Truthy(account) /\ ~HasKey(account.body, "balances")
       THEN Crash("KeyError")
       ELSE /\ pc' = IF pc = "m_balance" THEN "m_order" ELSE "i_params"
            /\ UNCHANGED uncaught
    /\ UNCHANGED <<use_schedule, confirm, remaining, display,
                   args, time_input, account_req, secret_key, clock, account, order, target_time, wake,
                   jobstore, fg, posts, calls, reported, interruptedAt, alive>>

\* MainOrder without the test of args.price
MainOrderAnyPrice ==
    /\ pc = "m_order"
    /\ IF TruthyText(args.symbol) /\ TruthyText(args.side)
          /\ TruthyNumber(args.quantity) /\ args.price # Absent
       THEN /\ order' = [symbol |-> args.symbol, side |-> upper(args.side),
                         quantity |-> args.quantity[1], price |-> args.price[1]]
            /\ pc' = IF TruthySeq(args.schedule_time) THEN "m_parse" ELSE "fg_call"
       ELSE /\ pc' = "returned"
            /\ UNCHANGED order
    /\ UNCHANGED <<use_schedule, confirm, remaining, display,
                   args, time_input, account_req, secret_key, clock, uncaught, account, target_time,
                   wake, jobstore, fg, posts, calls, reported, interruptedAt,
                   alive>>

\* main: if args.symbol and args.side and args.quantity and args.price
MainOrder ==
    /\ pc = "m_order"
    /\ IF TruthyText(args.symbol) /\ TruthyText(args.side)
          /\ TruthyNumber(args.quantity) /\ TruthyNumber(args.price)
       THEN /\ order' = [symbol |-> args.symbol, side |-> upper(args.side),
                         quantity |-> args.quantity[1], price |-> args.price[1]]
            /\ pc' = IF TruthySeq(args.schedule_time) THEN "m_parse" ELSE "fg_call"
       ELSE /\ pc' = "returned"
            /\ UNCHANGED order
    /\ UNCHANGED <<use_schedule, confirm, remaining, display,
                   args, time_input, account_req, secret_key, clock, uncaught, account, target_time,
                   wake, jobstore, fg, posts, calls, reported, interruptedAt,
                   alive>>

\* main: target_time = parse_time_input(args.schedule_time)
ParseTimeInput ==
    /\ pc = "m_parse"
    /\ LET r == parse_time_input(args.schedule_time, clock)
       IN IF r.kind = "ok"
          THEN /\ target_time' = r.t
               /\ pc' = "sched"
               /\ UNCHANGED uncaught
          ELSE /\ Crash(r.kind)
               /\ UNCHANGED target_time
    /\ UNCHANGED <<use_schedule, confirm, remaining, display,
                   args, time_input, account_req, secret_key, clock, account, order, wake, jobstore,
                   fg, posts, calls, reported, interruptedAt, alive>>

\* interactive_trading: the four prompts; float() raises on other text
InteractiveParams ==
    /\ pc = "i_params"
    /\ \E sym \in Symbols, sd \in Sides, qt \in QuantityTexts, pt \in PriceTexts :
         IF float(qt).err # "none" \/ float(pt).err # "none"
         THEN /\ Crash("ValueError")
              /\ UNCHANGED order
         ELSE /\ order' = [symbol |-> upper(sym), side |-> upper(sd),
                           quantity |-> float(qt).val, price |-> float(pt).val]
              /\ pc' = "i_use_schedule"
              /\ UNCHANGED uncaught
    /\ UNCHANGED <<use_schedule, confirm, remaining, display,
                   args, time_input, account_req, secret_key, clock, account, target_time, wake,
                   jobstore, fg, posts, calls, reported, interruptedAt, alive>>

Answers == {"y", "Y", "n", ""}

\* use_schedule = input(...).upper()
UseSchedule ==
    /\ pc = "i_use_schedule"
    /\ \E ans \in Answers :
         /\ use_schedule' = upper(ans)
         /\ pc' = IF upper(ans) = "Y" THEN "i_time" ELSE "i_confirm_now"
    /\ UNCHANGED <<confirm, remaining, display,
                   args, time_input, account_req, secret_key, clock, uncaught, account, order,
                   target_time, wake, jobstore, fg, posts, calls, reported,
                   interruptedAt, alive>>

\* one pass of the loop of get_valid_time_input, the user typing a text of S
GetValidTimeInputFrom(S) ==
    /\ pc = "i_time"
    /\ \E text \in S :
         LET r == get_valid_time_input(text, clock)
         IN /\ time_input' = text
            /\ CASE r.kind = "ok" ->
                   /\ target_time' = r.t
                   /\ pc' = "i_confirm"
                   /\ UNCHANGED <<uncaught, reported>>
              [] r.kind = "retry" ->
                   /\ reported' = reported \cup {"time_format"}
                   /\ UNCHANGED <<pc, uncaught, target_time>>
              [] OTHER ->
                   /\ Crash(r.kind)
                   /\ UNCHANGED <<target_time, reported>>
    /\ UNCHANGED <<use_schedule, confirm, remaining, display,
                   args, account_req, secret_key, clock, account, order, wake, jobstore,
                   fg, posts, calls, interruptedAt, alive>>

GetValidTimeInput == GetValidTimeInputFrom(TypedTimes)

\* confirm = input(...).upper() before schedule_order
ConfirmSchedule ==
    /\ pc = "i_confirm"
    /\ \E ans \in Answers :
         /\ confirm' = upper(ans)
         /\ pc' = IF upper(ans) = "Y" THEN "sched" ELSE "returned"
         /\ reported' = IF upper(ans) = "Y" THEN reported
                        ELSE reported \cup {"schedule_cancelled"}
    /\ UNCHANGED <<use_schedule, remaining, display,
                   args, time_input, account_req, secret_key, clock, uncaught, account, order,
                   target_time, wake, jobstore, fg, posts, calls,
                   interruptedAt, alive>>

\* ConfirmNow placing the order whatever the answer
ConfirmNowAnyAnswer ==
    /\ pc = "i_confirm_now"
    /\ \E ans \in Answers :
         /\ confirm' = upper(ans)
         /\ pc' = "fg_call"
         /\ reported' = IF upper(ans) = "Y" THEN reported
                        ELSE reported \cup {"order_cancelled"}
    /\ UNCHANGED <<use_schedule, remaining, display,
                   args, time_input, account_req, secret_key, clock, uncaught, account, order,
                   target_time, wake, jobstore, fg, posts, calls,
                   interruptedAt, alive>>

\* confirm = input(...).upper() before the immediate order
ConfirmNow ==
    /\ pc = "i_confirm_now"
    /\ \E ans \in Answers :
         /\ confirm' = upper(ans)
         /\ pc' = IF upper(ans) = "Y" THEN "fg_call" ELSE "returned"
         /\ reported' = IF upper(ans) = "Y" THEN reported
                        ELSE reported \cup {"order_cancelled"}
    /\ UNCHANGED <<use_schedule, remaining, display,
                   args, time_input, account_req, secret_key, clock, uncaught, account, order,
                   target_time, wake, jobstore, fg, posts, calls,
                   interruptedAt, alive>>

----------------------------------------------------------------------------
(* schedule_order and the countdown *)

\* trader.schedule_order(...): scheduler.add_job(job, 'date', run_date=...)
ScheduleOrder ==
    /\ pc = "sched"
    /\ jobstore' = Append(jobstore, NewJob(order, target_time, clock))
    /\ pc' = "cd_sample"
    /\ UNCHANGED <<use_schedule, confirm, remaining, display,
                   args, time_input, account_req, secret_key, clock, uncaught, account, order,
                   target_time, wake, fg, posts, calls, reported,
                   interruptedAt, alive>>

\* the head of the countdown loop: remaining = scheduled_time - now; leave
\* the loop when remaining <= 0, else print it and go to sleep
CountdownSample ==
    /\ pc = "cd_sample"
    /\ remaining' = <<target_time - clock>>
    /\ IF target_time - clock <= 0
       THEN /\ pc' = "cd_done"
            /\ UNCHANGED <<wake, display>>
       ELSE /\ display' = <<target_time - clock>>
            /\ pc' = "cd_sleep"
            /\ wake' = clock + 1
    /\ UNCHANGED <<use_schedule, confirm,
                   args, time_input, account_req, secret_key, clock, uncaught, account, order,
                   target_time, jobstore, fg, posts, calls, reported,
                   interruptedAt, alive>>

\* CountdownWake with a sleep that returns at once
CountdownWakeAtOnce ==
    /\ pc = "cd_sleep"
    /\ pc' = "cd_sample"
    /\ UNCHANGED <<use_schedule, confirm, remaining, display,
                   args, time_input, account_req, secret_key, clock, uncaught, account, order,
                   target_time, wake, jobstore, fg, posts, calls, reported,
                   interruptedAt, alive>>

\* time.sleep(1) returns
CountdownWake ==
    /\ pc = "cd_sleep"
    /\ clock >= wake
    /\ pc' = "cd_sample"
    /\ UNCHANGED <<use_schedule, confirm, remaining, display,
                   args, time_input, account_req, secret_key, clock, uncaught, account, order,
                   target_time, wake, jobstore, fg, posts, calls, reported,
                   interruptedAt, alive>>

\* CountdownDone waiting for the job's call to end before it returns
CountdownDoneJoins ==
    /\ pc = "cd_done"
    /\ \A j \in 1..Len(jobstore) : ~InFlight(j)
    /\ pc' = "returned"
    /\ remaining' = <<>>
    /\ display' = <<>>
    /\ UNCHANGED <<use_schedule, confirm,
                   args, time_input, account_req, secret_key, clock, uncaught, account, order,
                   target_time, wake, jobstore, fg, posts, calls, reported,
                   interruptedAt, alive>>

\* print() after the loop; the function returns and its locals are gone
CountdownDone ==
    /\ pc = "cd_done"
    /\ pc' = "returned"
    /\ remaining' = <<>>
    /\ display' = <<>>
    /\ UNCHANGED <<use_schedule, confirm,
                   args, time_input, account_req, secret_key, clock, uncaught, account, order,
                   target_time, wake, jobstore, fg, posts, calls, reported,
                   interruptedAt, alive>>

\* Ctrl-C while the foreground thread is inside the try of the countdown
Interrupt ==
    /\ pc \in {"cd_sample", "cd_sleep", "cd_done"}
    /\ interruptedAt' = clock
    /\ pc' = "cd_except"
    /\ UNCHANGED <<use_schedule, confirm, remaining, display,
                   args, time_input, account_req, secret_key, clock, uncaught, account, order,
                   target_time, wake, jobstore, fg, posts, calls, reported,
                   alive>>

\* except KeyboardInterrupt: print the notice and return
CountdownExcept ==
    /\ pc = "cd_except"
    /\ reported' = reported \cup {"exit_notice"}
    /\ pc' = "returned"
    /\ remaining' = <<>>
    /\ display' = <<>>
    /\ UNCHANGED <<use_schedule, confirm,
                   args, time_input, account_req, secret_key, clock, uncaught, account, order,
                   target_time, wake, jobstore, fg, posts, calls,
                   interruptedAt, alive>>

----------------------------------------------------------------------------
(* The immediate order, on the foreground thread *)

\* place_limit_order up to the signature, computed before the try
FgSign ==
    /\ pc = "fg_call"
    /\ calls' = calls + 1
    /\ IF secret_key = None
       THEN /\ Crash("AttributeError")
            /\ UNCHANGED fg
       ELSE /\ fg' = [fg EXCEPT !.req = SignedRequest(order.symbol, order.side,
                                   order.quantity, order.price, clock, secret_key)]
            /\ pc' = "fg_post"
            /\ UNCHANGED uncaught
    /\ UNCHANGED <<use_schedule, confirm, remaining, display,
                   args, time_input, account_req, secret_key, clock, account, order, target_time, wake,
                   jobstore, posts, reported, interruptedAt, alive>>

\* requests.post(...) sends the request
FgPost ==
    /\ pc = "fg_post"
    /\ posts' = Append(posts, [by |-> 0, req |-> fg.req])
    /\ pc' = "fg_wait"
    /\ UNCHANGED <<use_schedule, confirm, remaining, display,
                   args, time_input, account_req, secret_key, clock, uncaught, account, order,
                   target_time, wake, jobstore, fg, calls, reported,
                   interruptedAt, alive>>

\* the answer arrives; raise_for_status, response.json(), the except clause
FgResponse ==
    /\ pc = "fg_wait"
    /\ \E resp \in Responses :
         LET out == place_limit_order(resp)
         IN /\ fg' = [fg EXCEPT !.resp = resp, !.outcome = out]
            /\ IF out.raised # "none"
               THEN /\ Crash(out.raised)
                    /\ UNCHANGED reported
               ELSE /\ pc' = "fg_report"
                    /\ reported' = IF Truthy(out.result) THEN reported
                                   ELSE reported \cup {"order_failed"}
                    /\ UNCHANGED uncaught
    /\ UNCHANGED <<use_schedule, confirm, remaining, display,
                   args, time_input, account_req, secret_key, clock, account, order, target_time, wake,
                   jobstore, posts, calls, interruptedAt, alive>>

\* if result: ... result['orderId'] ... else: the failure line
FgReport ==
    /\ pc = "fg_report"
    /\ IF Truthy(fg.outcome.result) /\ ~HasKey(fg.outcome.result.body, "orderId")
       THEN Crash("KeyError")
       ELSE /\ pc' = "returned"
            /\ UNCHANGED uncaught
    /\ UNCHANGED <<use_schedule, confirm, remaining, display,
                   args, time_input, account_req, secret_key, clock, account, order, target_time, wake,
                   jobstore, fg, posts, calls, reported, interruptedAt, alive>>

----------------------------------------------------------------------------
(* The scheduler's threads *)

\* TimerDispatch without the wait for the run date
TimerDispatchEarly(j) ==
    /\ alive
    /\ jobstore[j].state = "Pending"
    /\ jobstore' = [jobstore EXCEPT ![j].state = "Submitted"]
    /\ UNCHANGED <<use_schedule, confirm, remaining, display,
                   args, time_input, account_req, secret_key, pc, clock, uncaught, account,
                   order, target_time, wake, fg, posts, calls, reported,
                   interruptedAt, alive>>

\* The scheduler thread wakes for a due job: it hands the job to the pool
\* and, a date trigger having no next run, removes it from the job store
TimerDispatch(j) ==
    /\ alive
    /\ jobstore[j].state = "Pending"
    /\ clock >= jobstore[j].run_date
    /\ jobstore' = [jobstore EXCEPT ![j].state = "Submitted"]
    /\ UNCHANGED <<use_schedule, confirm, remaining, display,
                   args, time_input, account_req, secret_key, pc, clock, uncaught, account, order,
                   target_time, wake, fg, posts, calls, reported,
                   interruptedAt, alive>>

\* A pool thread takes the job: a run date missed by more than the grace
\* time is skipped, else job() is called
WorkerRun(j) ==
    /\ alive
    /\ jobstore[j].state = "Submitted"
    /\ jobstore' =
         IF clock - jobstore[j].run_date > misfire_grace_time
         THEN [jobstore EXCEPT ![j].state = "Missed"]
         ELSE [jobstore EXCEPT ![j].state = "Fired", ![j].stage = "call",
                               ![j].runs = @ + 1, ![j].firedAt = clock]
    /\ UNCHANGED <<use_schedule, confirm, remaining, display,
                   args, time_input, account_req, secret_key, pc, clock, uncaught, account, order,
                   target_time, wake, fg, posts, calls, reported,
                   interruptedAt, alive>>

\* JobSign with the request stamped at the instant of schedule_order
JobSignAtSchedule(j) ==
    /\ alive
    /\ jobstore[j].state = "Fired" /\ jobstore[j].stage = "call"
    /\ calls' = calls + 1
    /\ jobstore' =
         IF secret_key = None
         THEN [jobstore EXCEPT ![j].stage = "raised",
                               ![j].exc = "AttributeError"]
         ELSE [jobstore EXCEPT ![j].stage = "signed",
                  ![j].req = SignedRequest(jobstore[j].symbol, jobstore[j].side,
                                 jobstore[j].quantity, jobstore[j].price,
                                 jobstore[j].addedAt, secret_key)]
    /\ UNCHANGED <<use_schedule, confirm, remaining, display,
                   args, time_input, account_req, secret_key, pc, clock, uncaught, account, order,
                   target_time, wake, fg, posts, reported, interruptedAt,
                   alive>>

\* job(): place_limit_order up to the signature; an exception ends the job
\* and is logged by the pool
JobSign(j) ==
    /\ alive
    /\ jobstore[j].state = "Fired" /\ jobstore[j].stage = "call"
    /\ calls' = calls + 1
    /\ jobstore' =
         IF secret_key = None
         THEN [jobstore EXCEPT ![j].stage = "raised",
                               ![j].exc = "AttributeError"]
         ELSE [jobstore EXCEPT ![j].stage = "signed",
                  ![j].req = SignedRequest(jobstore[j].symbol, jobstore[j].side,
                                 jobstore[j].quantity, jobstore[j].price,
                                 clock, secret_key)]
    /\ UNCHANGED <<use_schedule, confirm, remaining, display,
                   args, time_input, account_req, secret_key, pc, clock, uncaught, account, order,
                   target_time, wake, fg, posts, reported, interruptedAt,
                   alive>>

\* JobPost sending the request a second time
JobPostTwice(j) ==
    /\ alive
    /\ jobstore[j].state = "Fired" /\ jobstore[j].stage = "signed"
    /\ posts' = posts \o <<[by |-> j, req |-> jobstore[j].req],
                            [by |-> j, req |-> jobstore[j].req]>>
    /\ jobstore' = [jobstore EXCEPT ![j].stage = "posting"]
    /\ UNCHANGED <<use_schedule, confirm, remaining, display,
                   args, time_input, account_req, secret_key, pc, clock, uncaught, account,
                   order, target_time, wake, fg, calls, reported,
                   interruptedAt, alive>>

\* job(): requests.post(...) sends the request
JobPost(j) ==
    /\ alive
    /\ jobstore[j].state = "Fired" /\ jobstore[j].stage = "signed"
    /\ posts' = Append(posts, [by |-> j, req |-> jobstore[j].req])
    /\ jobstore' = [jobstore EXCEPT ![j].stage = "posting"]
    /\ UNCHANGED <<use_schedule, confirm, remaining, display,
                   args, time_input, account_req, secret_key, pc, clock, uncaught, account, order,
                   target_time, wake, fg, calls, reported, interruptedAt,
                   alive>>

\* job(): the answer arrives; place_limit_order returns and job() prints
\* result['orderId'] or the failure line
JobResponse(j) ==
    /\ alive
    /\ jobstore[j].state = "Fired" /\ jobstore[j].stage = "posting"
    /\ \E resp \in Responses :
         LET out == place_limit_order(resp)
             keyError == Truthy(out.result) /\ ~HasKey(out.result.body, "orderId")
         IN /\ jobstore' = [jobstore EXCEPT
                  ![j].resp = resp,
                  ![j].outcome = out,
                  ![j].exc = IF out.raised # "none" THEN out.raised
                             ELSE IF keyError THEN "KeyError" ELSE "none",
                  ![j].stage = IF out.raised # "none" \/ keyError
                               THEN "raised" ELSE "done"]
            /\ reported' = IF out.raised = "none" /\ ~Truthy(out.result)
                           THEN reported \cup {"scheduled_order_failed"}
                           ELSE reported
    /\ UNCHANGED <<use_schedule, confirm, remaining, display,
                   args, time_input, account_req, secret_key, pc, clock, uncaught, account, order,
                   target_time, wake, fg, posts, calls, interruptedAt, alive>>

\* The interpreter shuts down once the main thread has returned or died:
\* the pool's threads are joined, the scheduler's daemon thread is not
ProcessExit ==
    /\ alive
    /\ pc \in {"returned", "crashed"}
    /\ \A j \in 1..Len(jobstore) : ~InFlight(j)
    /\ alive' = FALSE
    /\ pc' = "exited"
    /\ UNCHANGED <<use_schedule, confirm, remaining, display,
                   args, time_input, account_req, secret_key, clock, uncaught, account, order,
                   target_time, wake, jobstore, fg, posts, calls, reported,
                   interruptedAt>>

\* a second passes
Tick ==
    /\ alive
    /\ clock < MaxClock
    /\ clock' = clock + 1
    /\ UNCHANGED <<use_schedule, confirm, remaining, display,
                   args, time_input, account_req, secret_key, pc, uncaught, account, order,
                   target_time, wake, jobstore, fg, posts, calls, reported,
                   interruptedAt, alive>>

Next ==
    \/ Entry
    \/ SignAccountRequest
    \/ GetAccountInfo
    \/ ShowBalance
    \/ MainOrder
    \/ ParseTimeInput
    \/ InteractiveParams
    \/ UseSchedule
    \/ GetValidTimeInput
    \/ ConfirmSchedule
    \/ ConfirmNow
    \/ ScheduleOrder
    \/ CountdownSample
    \/ CountdownWake
    \/ CountdownDone
    \/ Interrupt
    \/ CountdownExcept
    \/ FgSign
    \/ FgPost
    \/ FgResponse
    \/ FgReport
    \/ \E j \in 1..Len(jobstore) : TimerDispatch(j)
    \/ \E j \in 1..Len(jobstore) : WorkerRun(j)
    \/ \E j \in 1..Len(jobstore) : JobSign(j)
    \/ \E j \in 1..Len(jobstore) : JobPost(j)
    \/ \E j \in 1..Len(jobstore) : JobResponse(j)
    \/ ProcessExit
    \/ Tick

Spec == Init /\ [][Next]_vars

----------------------------------------------------------------------------
(* The time resolvers on their own *)

\* "HH:MM" and "H:M" for an hour and a minute
TimeText(h, m) ==
    <<DigitChar(h \div 10), DigitChar(h % 10), ":",
      DigitChar(m \div 10), DigitChar(m % 10)>>
ShortTimeText(h, m) == <<DigitChar(h), ":", DigitChar(m)>>

Hours == 0..23
SampleHours == {0, 9, 18, 23}
SampleMinutes == {0, 1, 30, 59}
SampleSeconds == {0, 59}

ValidTimes ==
    {TimeText(h, m) : h \in Hours, m \in SampleMinutes}
    \cup {ShortTimeText(h, m) : h \in 0..9, m \in {0, 1}}

\* texts that are not a time of day: not numeric, a field out of range, or
\* not two fields
InvalidTimes ==
    { <<"2", "5", ":", "6", "1">>,
      <<"a", "b", "c">>,
      <<"1", "8">>,
      <<>>,
      <<":">>,
      <<"2", "4", ":", "0", "0">>,
      <<"0", "0", ":", "6", "0">>,
      <<"-", "1", ":", "0", "0">>,
      <<"1", "8", ":", "0", "0", ":", "0", "0">>,
      <<"1", "8", ":", "x", "y">>,
      <<"1", "8", ":">>,
      <<"1", "_", ":", "0", "0">>,
      <<"9", "9", "9", "9", "9", "9", "9", "9", "9", ":", "0", "0">>,
      <<"2", "1", "4", "7", "4", "8", "3", "6", "4", "7", ":", "0", "0">>,
      <<"2", "1", "4", "7", "4", "8", "3", "6", "4", "8", ":", "0", "0">>,
      <<"0", "0", ":", "4", "2", "9", "4", "9", "6", "7", "2", "9", "6">> }

ResolveTimes == ValidTimes \cup InvalidTimes

ResolveNows ==
    {d * SecondsPerDay + h * SecondsPerHour + m * SecondsPerMinute + sec :
        d \in 0..MaxDay, h \in SampleHours, m \in SampleMinutes,
        sec \in SampleSeconds}

FullOrder(st) ==
    [symbol |-> "BTCUSDT", side |-> "BUY", quantity |-> Given(1),
     price |-> Given(1), schedule_time |-> st, show_balance |-> FALSE]

NoArgs ==
    [symbol |-> None, side |-> None, quantity |-> Absent, price |-> Absent,
     schedule_time |-> <<>>, show_balance |-> FALSE]

\* main about to call parse_time_input, or interactive_trading about to
\* call get_valid_time_input, at any instant
InitResolve ==
    \/ \E st \in ResolveTimes \ {<<>>}, now \in ResolveNows :
         Boot(FullOrder(st), "s", now, "m_parse")
    \/ \E now \in ResolveNows : Boot(NoArgs, "s", now, "i_time")

ResolveTyped == GetValidTimeInputFrom(ResolveTimes)

NextResolve ==
    \/ ParseTimeInput
    \/ ResolveTyped

SpecResolve == InitResolve /\ [][NextResolve]_vars

----------------------------------------------------------------------------
(* Properties *)

Jobs == 1..Len(jobstore)

\* the number of requests job j has POSTed (0 stands for the foreground)
PostsBy(j) == Cardinality({i \in 1..Len(posts) : posts[i].by = j})

\* C1: the body of a scheduled job runs at most once and never before its
\* run date, its request is never stamped before the run date, and a user
\* interrupt neither runs it again nor leaves the foreground thread as an
\* uncaught exception.
C1_AtMostOnceNotEarly ==
    /\ \A j \in Jobs :
         /\ jobstore[j].runs <= 1
         /\ jobstore[j].runs = 1 => jobstore[j].firedAt >= jobstore[j].run_date
         /\ jobstore[j].runs = 0 => PostsBy(j) = 0
    /\ \A i \in 1..Len(posts) :
         posts[i].by # 0 =>
            posts[i].req.params.timestamp >= jobstore[posts[i].by].run_date * 1000
    /\ interruptedAt >= 0 => uncaught = "none"

\* the job has fired, the user interrupts the countdown later, the process ends
C1_Witness ==
    /\ pc = "exited"
    /\ \E j \in Jobs :
         /\ jobstore[j].runs = 1
         /\ jobstore[j].stage = "done"
         /\ interruptedAt > jobstore[j].firedAt

\* C2: a job scheduled for a future instant has fired exactly once, and is
\* in state Fired, by the time a process that was not interrupted is gone.
C2_FiredWhenForegroundFinishes ==
    \A j \in Jobs :
        (pc = "exited" /\ interruptedAt < 0 /\ uncaught = "none"
            /\ jobstore[j].addedAt < jobstore[j].run_date)
        => (jobstore[j].runs = 1 /\ jobstore[j].state = "Fired")

\* C3: a job that was pending, its run date not reached, when the user
\* interrupted the countdown never executes its body and never POSTs.
C3_InterruptedPendingNeverRuns ==
    \A j \in Jobs :
        (interruptedAt >= 0 /\ interruptedAt < jobstore[j].run_date)
        => (jobstore[j].runs = 0 /\ PostsBy(j) = 0)

\* an answer with a status outside 2xx and a JSON body that has a msg field
Rejection(resp) ==
    /\ resp.net = "ok"
    /\ resp.status \notin 200..299
    /\ HasKey(resp.body, "msg")

\* C4: on a non-2xx answer whose JSON body has a msg field, place_limit_order
\* returns None and reports exactly that msg.
C4_ExchangeMessageReported ==
    /\ Rejection(fg.resp) =>
         /\ fg.outcome.result = NoValue
         /\ fg.outcome.error_msg = MsgOf(fg.resp.body)
    /\ \A j \in Jobs :
         Rejection(jobstore[j].resp) =>
            /\ jobstore[j].outcome.result = NoValue
            /\ jobstore[j].outcome.error_msg = MsgOf(jobstore[j].resp.body)

\* C5: one POST at most per place_limit_order call, one call per fired job,
\* and no more POSTs in a run than the one order the invocation asked for.
C5_SingleAttempt ==
    /\ Len(posts) <= calls
    /\ calls <= 1
    /\ Len(posts) <= 1
    /\ PostsBy(0) <= 1
    /\ \A j \in Jobs : PostsBy(j) <= jobstore[j].runs

\* a job's single POST was answered with a failure and the job is over
C5_Witness ==
    \E j \in Jobs :
        /\ jobstore[j].stage = "done"
        /\ jobstore[j].outcome.result = NoValue
        /\ jobstore[j].resp.net = "ok" /\ jobstore[j].resp.status = 400
        /\ PostsBy(j) = 1
        /\ pc = "exited"

\* C6: get_account_info hands its callers a value other than None only for
\* a 2xx answer carrying account information, and the balance display does
\* not raise on what it was handed.
C6_AccountOnlyOnSuccess ==
    /\ account # NoValue => account.body = "account"
    /\ ~(pc = "crashed" /\ uncaught = "KeyError" /\ fg.req = NoRequest)

\* exceptions that can arise inside get_account_info and place_limit_order
ClientExceptions == {"AttributeError", "JSONDecodeError", "KeyError"}

\* C7: no failure inside get_account_info or place_limit_order leaves the
\* operation as an exception, on the foreground thread or in the job.
C7_ClientFailuresAreValues ==
    /\ uncaught # "AttributeError"
    /\ fg.outcome.raised \notin ClientExceptions
    /\ \A j \in Jobs :
         /\ jobstore[j].outcome.raised \notin ClientExceptions
         /\ jobstore[j].exc # "AttributeError"

\* C8: every request signed or sent, and every job scheduled, has
\* quantity > 0 and price > 0.
C8_PositiveBeforeSigning ==
    /\ fg.req # NoRequest =>
         fg.req.params.quantity > 0 /\ fg.req.params.price > 0
    /\ \A i \in 1..Len(posts) :
         posts[i].req.params.quantity > 0 /\ posts[i].req.params.price > 0
    /\ \A j \in Jobs : jobstore[j].quantity > 0 /\ jobstore[j].price > 0

\* the instant the roll-over rule names for hour h, minute m and instant now
RolledInstant(h, m, now) ==
    LET today == DayOf(now) * SecondsPerDay + h * SecondsPerHour
                 + m * SecondsPerMinute
    IN IF today >= now THEN today ELSE today + SecondsPerDay

\* the ways of writing hour h and minute m
TextsOf(h, m) ==
    {TimeText(h, m)}
    \cup (IF h < 10 /\ m < 10 THEN {ShortTimeText(h, m)} ELSE {})

\* the hour and minute a valid text stands for
HourMinute ==
    [t \in ValidTimes |->
        CHOOSE hm \in Hours \X (0..59) : t \in TextsOf(hm[1], hm[2])]

\* the text the resolver that has just returned was given, <<>> if none has
ResolvedText ==
    IF pc = "sched" THEN args.schedule_time
    ELSE IF pc = "i_confirm" THEN time_input
    ELSE <<>>

\* C9: for a valid time of day, either resolver returns HH:MM:00 of today
\* when that is not before now and of tomorrow otherwise; the instant is
\* never before now and less than a day ahead; and a valid text is never
\* refused.
C9_RollOver ==
    /\ ResolvedText \in ValidTimes =>
         LET hm == HourMinute[ResolvedText]
         IN /\ target_time = RolledInstant(hm[1], hm[2], clock)
            /\ target_time >= clock
            /\ target_time - clock < SecondsPerDay
    /\ pc = "crashed" => args.schedule_time \notin ValidTimes
    /\ time_input \in ValidTimes => pc = "i_confirm"

\* a resolver has rolled a valid time over to the next day
C9_Witness ==
    /\ ResolvedText \in ValidTimes
    /\ DayOf(target_time) = DayOf(clock) + 1

\* C10: a text that is not numeric, has a field out of range or does not
\* have two fields is refused as a format error: parse_time_input raises
\* ArgumentTypeError, get_valid_time_input prints the format message and
\* asks again; no instant is returned.
C10_InvalidFormatRejected ==
    /\ (pc \in {"sched", "crashed"} /\ args.schedule_time \in InvalidTimes) =>
         (pc = "crashed" /\ uncaught = "ArgumentTypeError")
    /\ time_input \in InvalidTimes =>
         (pc = "i_time" /\ "time_format" \in reported)

\* exceptions raised by the conversion of what the user typed or passed
InputExceptions == {"ArgumentTypeError", "ValueError", "OverflowError"}

\* C11: a malformed schedule time or a non-numeric quantity or price never
\* leaves the foreground thread as an uncaught exception, and no order is
\* placed or scheduled for it.
C11_InvalidInputAborts ==
    /\ uncaught \notin InputExceptions
    /\ (pc = "crashed" /\ uncaught \in InputExceptions) =>
         (posts = <<>> /\ jobstore = <<>>)


-----------------------------------------------------------------------------
(* Orders given on the command line, with the symbols a user may write *)

OrderSymbols == {"BTCUSDT", "btcusdt", "BTC/USDT"}

OrderArgs ==
    [symbol : OrderSymbols,
     side : {"BUY"},
     quantity : {Given(1)},
     price : {Given(1)},
     schedule_time : {<<>>, <<"0", "0", ":", "0", "1">>},
     show_balance : BOOLEAN]

InitOrder ==
    \E a \in OrderArgs \cup {NoArgs}, now \in ClockStarts :
        Boot(a, "s", now, "entry")

SpecOrder == InitOrder /\ [][Next]_vars

\* the request is signed over what is sent: the same keys in the same order,
\* the same text for every value, the signature added last
SignedAsSent(r) ==
    /\ r.keys = Append(r.signature.keys, "signature")
    /\ r.query = r.signature.msg
    /\ r.signature.secret = secret_key

\* C12: every request get_account_info or place_limit_order has sent carries
\* a signature computed over exactly the items transmitted, in the same
\* order and with the same text; orders carry symbol, side, type=LIMIT,
\* timeInForce=GTC, quantity, price, timestamp; signature is the last field.
C12_SignatureOverTransmitted ==
    /\ account_req # NoRequest => SignedAsSent(account_req)
    /\ \A i \in 1..Len(posts) :
         /\ SignedAsSent(posts[i].req)
         /\ posts[i].req.signature.keys = ParamOrder
         /\ posts[i].req.params.type = "LIMIT"
         /\ posts[i].req.params.timeInForce = "GTC"


-----------------------------------------------------------------------------
(* Several schedule_order calls on one trader *)

MaxJobs == 2

\* the orders the caller schedules
MultiOrders ==
    { [symbol |-> "BTCUSDT", side |-> "BUY", quantity |-> 1, price |-> 1],
      [symbol |-> "btcusdt", side |-> "buy", quantity |-> 2, price |-> 2] }

\* the target instants the caller passes, relative to the instant of the call
TargetOffsets == {0 - 2, 0, 1}

\* the instants at which the caller starts
MultiStarts == {MaxClock - 2}

\* a caller that holds a started trader and is about to call schedule_order
InitMulti ==
    \E now \in MultiStarts : Boot(NoArgs, "s", now, "caller")

\* trader.schedule_order(symbol, side, quantity, price, target_time), called
\* again on the same trader
ScheduleOrderCall ==
    /\ pc = "caller"
    /\ Len(jobstore) < MaxJobs
    /\ \E o \in MultiOrders, d \in TargetOffsets :
         jobstore' = Append(jobstore, NewJob(o, clock + d, clock))
    /\ UNCHANGED <<use_schedule, confirm, remaining, display,
                   args, time_input, account_req, secret_key, pc, clock,
                   uncaught, account, order, target_time, wake, fg, posts,
                   calls, reported, interruptedAt, alive>>

NextMulti ==
    \/ ScheduleOrderCall
    \/ \E j \in 1..Len(jobstore) :
         \/ TimerDispatch(j)
         \/ WorkerRun(j)
         \/ JobSign(j)
         \/ JobPost(j)
         \/ JobResponse(j)
    \/ Tick

SpecMulti == InitMulti /\ [][NextMulti]_vars

\* C13: every job scheduled on the trader is run, once, not before its own
\* target instant and with its own symbol, side, quantity and price, whatever
\* the other jobs do: none is skipped, run twice or sent with another job's
\* values.
C13_EachJobFiresOnce ==
    \A j \in 1..Len(jobstore) :
        /\ jobstore[j].state \in {"Pending", "Submitted", "Fired"}
        /\ jobstore[j].runs <= 1
        /\ jobstore[j].state = "Fired" => jobstore[j].firedAt >= jobstore[j].run_date
        /\ PostsBy(j) <= 1
        /\ \A i \in 1..Len(posts) :
             posts[i].by = j =>
               /\ posts[i].req.params.symbol = upper(jobstore[j].symbol)
               /\ posts[i].req.params.side = upper(jobstore[j].side)
               /\ posts[i].req.params.quantity = jobstore[j].quantity
               /\ posts[i].req.params.price = jobstore[j].price


\* the state of a job as its caller sees it: a job handed to the pool whose
\* body has not started is still pending
JobState(job) == IF job.state = "Submitted" THEN "Pending" ELSE job.state

\* C14: a job's state only ever goes from Pending to Fired or from Pending to
\* Cancelled, never leaves Fired or Cancelled, is never outside {Pending,
\* Fired, Cancelled}, and a user interrupt never ends the foreground thread
\* with an uncaught exception.
C14_JobStateTransitions ==
    [][ /\ \A j \in 1..Len(jobstore) :
             /\ JobState(jobstore'[j]) \in {"Pending", "Fired", "Cancelled"}
             /\ JobState(jobstore'[j]) # JobState(jobstore[j]) =>
                  JobState(jobstore[j]) = "Pending"
        /\ interruptedAt' >= 0 => uncaught' = "none" ]_vars


-----------------------------------------------------------------------------
(* The countdown of a scheduled order, with a clock that advances *)

\* the instants at which main reaches the order, up to the minute asked for
CountdownStarts == 56..60

InitCountdown ==
    \E now \in CountdownStarts :
        Boot(FullOrder(<<"0", "0", ":", "0", "1">>), "s", now, "m_order")

NextCountdown ==
    \/ MainOrder
    \/ ParseTimeInput
    \/ ScheduleOrder
    \/ CountdownSample
    \/ CountdownWake
    \/ CountdownDone
    \/ Interrupt
    \/ CountdownExcept
    \/ \E j \in 1..Len(jobstore) :
         \/ TimerDispatch(j)
         \/ WorkerRun(j)
         \/ JobSign(j)
         \/ JobPost(j)
         \/ JobResponse(j)
    \/ ProcessExit
    \/ Tick

\* the clock advances and the foreground thread is scheduled
SpecCountdown ==
    /\ InitCountdown
    /\ [][NextCountdown]_vars
    /\ WF_vars(Tick)
    /\ WF_vars(CountdownSample)
    /\ WF_vars(CountdownWake)

InLoop == pc \in {"cd_sample", "cd_sleep"}

\* C15: every sample of the countdown is smaller than the one before, a
\* sample is printed only when it is > 0, the loop is left at the first
\* sample <= 0 and samples nothing after that (the sample is a local that
\* changes again only when the function returns), and the loop ends for every
\* target instant the clock reaches (the model's clock stops at MaxClock).
C15_CountdownTerminates ==
    /\ [][ /\ (pc = "cd_sample" /\ pc' \in {"cd_sleep", "cd_done"}) =>
                /\ remaining' = <<target_time - clock>>
                /\ remaining # <<>> => remaining'[1] < remaining[1]
                /\ remaining'[1] > 0 => (display' = remaining' /\ pc' = "cd_sleep")
                /\ remaining'[1] <= 0 => (display' = display /\ pc' = "cd_done")
           /\ (display' # display /\ pc' # "returned") =>
                (display' # <<>> /\ display'[1] > 0)
           /\ remaining' # remaining => pc \in {"cd_sample", "cd_done", "cd_except"}
           /\ (pc # "cd_sample" /\ remaining' # remaining) => pc' = "returned"
           /\ pc' = "cd_sample" => pc \in {"sched", "cd_sample", "cd_sleep"} ]_vars
    /\ (InLoop /\ target_time <= MaxClock) ~> ~InLoop

\* the countdown printed a remaining time and then ended on a sample <= 0
C15_Witness ==
    /\ pc = "cd_done"
    /\ display # <<>>
    /\ remaining # <<>> /\ remaining[1] <= 0


BuiltAtFireTime(j) ==
    /\ jobstore[j].req # NoRequest =>
         /\ jobstore[j].state = "Fired"
         /\ jobstore[j].req.params.timestamp >= jobstore[j].firedAt * 1000
         /\ jobstore[j].req.params.timestamp >= jobstore[j].run_date * 1000
    /\ \A i \in 1..Len(posts) :
         posts[i].by = j =>
           /\ posts[i].req = jobstore[j].req
           /\ posts[i].req.params.quantity = jobstore[j].quantity
           /\ posts[i].req.params.price = jobstore[j].price

\* C17 as stated: the request of a scheduled order is built and stamped when
\* the job runs, its timestamp is not before the target instant, and its
\* symbol, side, quantity and price are exactly the values schedule_order was
\* given.
C17_ExactValuesAtFireTime ==
    \A j \in 1..Len(jobstore) :
        /\ BuiltAtFireTime(j)
        /\ \A i \in 1..Len(posts) :
             posts[i].by = j =>
               /\ posts[i].req.params.symbol = jobstore[j].symbol
               /\ posts[i].req.params.side = jobstore[j].side

\* C17 amended: the request of a scheduled order is built and stamped when
\* the job runs, its timestamp is not before the target instant, its quantity
\* and price are the values schedule_order was given and its symbol and side
\* are those values in upper case.
C17_UpperCasedValuesAtFireTime ==
    \A j \in 1..Len(jobstore) :
        /\ BuiltAtFireTime(j)
        /\ \A i \in 1..Len(posts) :
             posts[i].by = j =>
               /\ posts[i].req.params.symbol = upper(jobstore[j].symbol)
               /\ posts[i].req.params.side = upper(jobstore[j].side)

\* a job scheduled with a lower-case symbol has sent its order
C17_Witness ==
    \E i \in 1..Len(posts) :
        /\ posts[i].by >= 1
        /\ jobstore[posts[i].by].symbol = "btcusdt"
        /\ posts[i].req.params.timestamp >= jobstore[posts[i].by].run_date * 1000


\* the session is interactive_trading
Interactive == ~AnyArg(args)

\* the foreground thread has called place_limit_order itself
ImmediateOrder ==
    \/ pc \in {"fg_call", "fg_post", "fg_wait", "fg_report"}
    \/ fg.req # NoRequest
    \/ \E i \in 1..Len(posts) : posts[i].by = 0

\* C18: in interactive mode an order is sent or a job scheduled only after
\* the answer Y to the confirmation prompt; any other answer there ends the
\* session with nothing sent and nothing scheduled; after choosing scheduled
\* execution no immediate order is placed, and without choosing it no job is
\* scheduled.
C18_OnlyOnConfirmation ==
    Interactive =>
        /\ (ImmediateOrder \/ pc = "sched" \/ jobstore # <<>> \/ posts # <<>>
              \/ calls > 0) => confirm = "Y"
        /\ confirm \notin {None, "Y"} =>
             /\ pc \in {"returned", "exited"}
             /\ posts = <<>> /\ jobstore = <<>> /\ calls = 0
        /\ use_schedule = "Y" => ~ImmediateOrder
        /\ use_schedule # "Y" => (jobstore = <<>> /\ pc # "sched")

\* an interactive session has sent the immediate order after the answer Y
C18_Witness ==
    /\ Interactive
    /\ use_schedule = "N"
    /\ confirm = "Y"
    /\ \E i \in 1..Len(posts) : posts[i].by = 0


\* symbol, side, quantity and price were all passed and none is zero or empty
AllFour ==
    /\ TruthyText(args.symbol) /\ TruthyText(args.side)
    /\ TruthyNumber(args.quantity) /\ TruthyNumber(args.price)

\* calls of place_limit_order made by the foreground thread
FgCalls ==
    calls - Cardinality({j \in 1..Len(jobstore) :
                           jobstore[j].stage \notin {"none", "call"}})

\* main has taken the order branch and has ended
MainEnded == order # NoOrder /\ pc \in {"returned", "crashed", "exited"}

\* what holds in flag mode whether or not schedule_time resolves
FlagFrame ==
    /\ ~AllFour => (posts = <<>> /\ jobstore = <<>> /\ calls = 0)
    /\ AllFour =>
         /\ ~(jobstore # <<>> /\ FgCalls > 0)
         /\ TruthySeq(args.schedule_time) => FgCalls = 0
         /\ ~TruthySeq(args.schedule_time) => jobstore = <<>>
         /\ (MainEnded /\ ~TruthySeq(args.schedule_time)) => FgCalls = 1

====
